---- MODULE Spec2Model ----
(***************************************************************************)
(* A model of the reddit-film-communities utilities:                       *)
(*   - build_interaction_network (src/utils/reddit_utils.py), the weighted *)
(*     user-interaction graph derived from posts and comments;             *)
(*   - fetch_comments_from_posts (src/utils/reddit_utils.py), the          *)
(*     per-post comment collection loop;                                   *)
(*   - file_exists, save_to_csv / read_from_csv and save_to_json /         *)
(*     read_from_json (src/utils/file_utils.py), which share one folder.   *)
(*                                                                         *)
(* A pandas DataFrame is a record [cols, rows]: cols says whether the      *)
(* frame has its columns, rows is the sequence of its rows.  A frame built *)
(* from an empty list, pd.DataFrame([]), has no rows and no columns; a     *)
(* frame with rows always has its columns.                                 *)
(***************************************************************************)
EXTENDS Integers, Sequences, FiniteSets, TLC

VARIABLES
    \* build_interaction_network
    comments_df,      \* the comments frame held by the caller
    posts_df,         \* the posts frame held by the caller
    given,            \* history: the frames handed to the first call
    interactions,     \* the raw interactions of the latest call
    edge_list,        \* the value returned by the latest call
    prev_edge_list,   \* history: the value returned by the call before it
    \* fetch_comments_from_posts
    f_posts,          \* the posts_df argument
    f_site,           \* per post id, how many comments submission.comments.list() holds
    f_max,            \* the max_comments_per_post argument
    f_pc,             \* "post": at the outer for; "comment": at the inner for; "done"
    f_idx,            \* posts taken from posts_df['post_id'] so far
    f_pos,            \* comments of the current post taken from the list so far
    comment_count,    \* the local comment_count
    comments_data,    \* the local comments_data
    f_result,         \* the frame returned, or the error raised
    \* save_to_csv / read_from_csv / save_to_json / read_from_json
    dirs,             \* the folders that exist
    fs,               \* per filename of the folder, the file's text or Absent
    last_saved,       \* history: per filename, the frame last given to save_to_csv,
                      \* and whether save_to_json has written the file
    io                \* the latest call and what it returned or raised

netVars == <<comments_df, posts_df, given, interactions, edge_list, prev_edge_list>>
fetchVars == <<f_posts, f_site, f_max, f_pc, f_idx, f_pos, comment_count, comments_data, f_result>>
fileVars == <<dirs, fs, last_saved, io>>

vars == <<netVars, fetchVars, fileVars>>

(***************************************************************************)
(* Bounds and input domains                                                *)
(***************************************************************************)
MaxComments == 3
MaxPosts == 1

None == "None"
Users == {"u1", "u2"}
AuthorIds == Users \cup {None}

\* Bare ids after prefix stripping.  The k-th comment has id k, the j-th post
\* has id 10 + j; a parent_id names comment 1, comment 2 or post 11.
PostId(j) == 10 + j
ParentIds == {1, 2, PostId(1)}
ParentTypes == {"post", "comment"}

\* created_utc of the k-th comment: 150, 100, 250, 200, ... (not monotone, so
\* the earliest comment of a group is neither always its first nor its last).
Stamp(k) == IF k % 2 = 1 THEN 100 + 50 * k ELSE 50 * k

EdgeColumns == <<"from_user_id", "to_user_id", "interaction_type", "weight", "first_interaction">>

(***************************************************************************)
(* Frames                                                                  *)
(***************************************************************************)
\* pd.DataFrame([]): what the fetch functions return when they fetched nothing.
\* A frame has its rows, whether it has the columns of its rows (a frame built
\* from no records has none), and its index: the default RangeIndex, or the
\* column that set_index moved into the index.
RangeIndex == "RangeIndex"
EmptyFrame == [cols |-> FALSE, index |-> RangeIndex, rows |-> <<>>]
\* A frame with its columns and no rows (a filtered frame).
EmptyWithColumns == [cols |-> TRUE, index |-> RangeIndex, rows |-> <<>>]

\* pd.DataFrame(rows_so_far + [row])
AppendRow(df, row) == [cols |-> TRUE, index |-> RangeIndex, rows |-> Append(df.rows, row)]

(***************************************************************************)
(* build_interaction_network                                               *)
(***************************************************************************)
MaxOf(S) == CHOOSE x \in S : \A y \in S : y <= x
MinOf(S) == CHOOSE x \in S : \A y \in S : x <= y

\* The frame has a column of this name: it has its columns and the column was
\* not moved into the index.
HasColumn(df, key) == df.cols /\ df.index # key

\* df.set_index(key): raises KeyError when the frame has no such column, else
\* returns a frame indexed by that column.  self is the frame it was called on
\* as the call leaves it: both calls (lines 288, 291) pass no inplace, so the
\* result is a new frame and the caller's frame stays as it was.
set_index_inplace(df, key) ==
    IF ~HasColumn(df, key)
    THEN [raised |-> TRUE, result |-> df, self |-> df]
    ELSE [raised |-> FALSE, result |-> [df EXCEPT !.index = key],
          self |-> [df EXCEPT !.index = key]]
set_index(df, key) ==
    IF ~HasColumn(df, key)
    THEN [raised |-> TRUE, result |-> df, self |-> df]
    ELSE [raised |-> FALSE, result |-> [df EXCEPT !.index = key], self |-> df]

\* indexed['author_id'].to_dict() on a frame indexed by key: one entry per
\* key value, the last row with that key value wins.
set_index_to_dict(df, key) ==
    LET keys == { df.rows[k][key] : k \in DOMAIN df.rows }
    IN  [ id \in keys |->
            df.rows[MaxOf({ k \in DOMAIN df.rows : df.rows[k][key] = id })].author_id ]

\* dict.get(key): None when the key is absent.
DictGet(d, key) == IF key \in DOMAIN d THEN d[key] ELSE None

\* comment['author_id'] is None  (negated: the row is not skipped)
AuthorKnownAlways(comment) == TRUE
AuthorKnown(comment) == comment.author_id # None

\* The lookup selected by parent_type.
ResolveTargetEitherLookup(comment, post_authors, comment_authors) ==
    IF comment.parent_id \in DOMAIN post_authors
    THEN DictGet(post_authors, comment.parent_id)
    ELSE DictGet(comment_authors, comment.parent_id)
ResolveTarget(comment, post_authors, comment_authors) ==
    IF comment.parent_type = "post"
    THEN DictGet(post_authors, comment.parent_id)
    ELSE DictGet(comment_authors, comment.parent_id)

InteractionType(comment) ==
    IF comment.parent_type = "post" THEN "comment_on_post" ELSE "reply_to_comment"

\* if to_user and from_user != to_user
QualifiesNoSelfCheck(from_user, to_user) == to_user # None
QualifiesNoTruthCheck(from_user, to_user) == from_user # to_user
Qualifies(from_user, to_user) == to_user # None /\ from_user # to_user

\* One iteration of the loop over comments_df.iterrows(): the records it
\* appends to interactions (none or one).
RowInteraction(comment, post_authors, comment_authors) ==
    IF ~AuthorKnown(comment) THEN <<>>
    ELSE LET from_user == comment.author_id
             to_user == ResolveTarget(comment, post_authors, comment_authors)
         IN  IF Qualifies(from_user, to_user)
             THEN << [from_user_id |-> from_user,
                      to_user_id |-> to_user,
                      interaction_type |-> InteractionType(comment),
                      timestamp |-> comment.created_utc,
                      comment_id |-> comment.comment_id,
                      post_id |-> comment.post_id] >>
             ELSE <<>>

RECURSIVE ExtractInteractions(_, _, _)
ExtractInteractions(rows, post_authors, comment_authors) ==
    IF rows = <<>> THEN <<>>
    ELSE RowInteraction(Head(rows), post_authors, comment_authors)
         \o ExtractInteractions(Tail(rows), post_authors, comment_authors)

Triple(r) == <<r.from_user_id, r.to_user_id, r.interaction_type>>

\* groupby(...) drops the rows with a null in a grouping key.
GroupKeys(recs) ==
    { Triple(recs[i]) : i \in { i \in DOMAIN recs :
        /\ recs[i].from_user_id # None
        /\ recs[i].to_user_id # None
        /\ recs[i].interaction_type # None } }

GroupMembers(recs, key) == { i \in DOMAIN recs : Triple(recs[i]) = key }

\* agg 'comment_id': 'count'
AggCount(recs, key) == Cardinality(GroupMembers(recs, key))

\* agg 'timestamp': 'min'
AggFirstSeen(recs, key) == recs[MinOf(GroupMembers(recs, key))].timestamp
AggMin(recs, key) == MinOf({ recs[i].timestamp : i \in GroupMembers(recs, key) })

\* The rows of interactions_df.groupby(...).agg(...).reset_index().
GroupByNoGrouping(recs) ==
    { [from_user_id |-> recs[i].from_user_id,
       to_user_id |-> recs[i].to_user_id,
       interaction_type |-> recs[i].interaction_type,
       weight |-> 1,
       first_interaction |-> recs[i].timestamp] : i \in DOMAIN recs }
GroupBy(recs) ==
    { [from_user_id |-> key[1],
       to_user_id |-> key[2],
       interaction_type |-> key[3],
       weight |-> AggCount(recs, key),
       first_interaction |-> AggMin(recs, key)] : key \in GroupKeys(recs) }

\* Lines 322-340: both branches give a frame with the five edge columns.
AggregateEdges(recs) ==
    IF Len(recs) > 0
    THEN [status |-> "ok", columns |-> EdgeColumns, rows |-> GroupBy(recs)]
    ELSE [status |-> "ok", columns |-> EdgeColumns, rows |-> {}]

KeyError == [status |-> "KeyError", columns |-> <<>>, rows |-> {}]

\* Lines 285-293: the two lookups, built from the posts frame first and the
\* comments frame second, and the two frames as building them leaves them.
\* When the first set_index raises, the second is never reached.
Lookups(comments, posts) ==
    LET p == set_index(posts, "post_id")
        c == set_index(comments, "comment_id")
    IN  IF p.raised
        THEN [raised |-> TRUE, posts |-> p.self, comments |-> comments,
              post_authors |-> <<>>, comment_authors |-> <<>>]
        ELSE IF c.raised
        THEN [raised |-> TRUE, posts |-> p.self, comments |-> c.self,
              post_authors |-> <<>>, comment_authors |-> <<>>]
        ELSE [raised |-> FALSE, posts |-> p.self, comments |-> c.self,
              post_authors |-> set_index_to_dict(p.result, "post_id"),
              comment_authors |-> set_index_to_dict(c.result, "comment_id")]

\* One call, from `interactions = []` to `return edge_list`: the raw
\* interactions it collected by iterating the comments frame as the lookups
\* left it, the value it returns or the error it raises, and the caller's two
\* frames as the call leaves them.
build_interaction_network(comments, posts) ==
    LET l == Lookups(comments, posts)
        collected == IF l.raised THEN <<>>
                     ELSE ExtractInteractions(l.comments.rows, l.post_authors,
                                              l.comment_authors)
    IN  [interactions |-> collected,
         edge_list |-> IF l.raised THEN KeyError ELSE AggregateEdges(collected),
         comments |-> l.comments,
         posts |-> l.posts]

NoResult == [status |-> "none", columns |-> <<>>, rows |-> {}]
NotGiven == [comments |-> EmptyFrame, posts |-> EmptyFrame, set |-> FALSE]

InitNet ==
    /\ comments_df \in {EmptyFrame, EmptyWithColumns}
    /\ posts_df \in {EmptyFrame, EmptyWithColumns}
    /\ given = NotGiven
    /\ interactions = <<>>
    /\ edge_list = NoResult
    /\ prev_edge_list = NoResult

\* The upstream layer adds a post to the posts frame (before any comment is
\* fetched from it).
AddPost ==
    /\ edge_list = NoResult
    /\ comments_df.rows = <<>>
    /\ Len(posts_df.rows) < MaxPosts
    /\ \E a \in AuthorIds :
         posts_df' = AppendRow(posts_df, [post_id |-> PostId(Len(posts_df.rows) + 1),
                                          author_id |-> a])
    /\ UNCHANGED <<comments_df, given, interactions, edge_list, prev_edge_list>>
    /\ UNCHANGED <<fetchVars, fileVars>>

\* The upstream layer adds a comment to the comments frame.  Comments are
\* fetched from posts_df['post_id'], so the posts frame has its columns.
AddComment ==
    /\ edge_list = NoResult
    /\ posts_df.cols
    /\ Len(comments_df.rows) < MaxComments
    /\ \E a \in AuthorIds, p \in ParentIds, t \in ParentTypes :
         comments_df' = AppendRow(comments_df,
             [comment_id |-> Len(comments_df.rows) + 1,
              post_id |-> PostId(1),
              author_id |-> a,
              parent_id |-> p,
              parent_type |-> t,
              created_utc |-> Stamp(Len(comments_df.rows) + 1)])
    /\ UNCHANGED <<posts_df, given, interactions, edge_list, prev_edge_list>>
    /\ UNCHANGED <<fetchVars, fileVars>>

\* One call of build_interaction_network(comments_df, posts_df), made on the
\* caller's frames as the calls before it left them.
Build ==
    /\ LET call == build_interaction_network(comments_df, posts_df)
       IN  /\ interactions' = call.interactions
           /\ edge_list' = call.edge_list
           /\ comments_df' = call.comments
           /\ posts_df' = call.posts
    /\ prev_edge_list' = edge_list
    /\ given' = IF given.set THEN given
                ELSE [comments |-> comments_df, posts |-> posts_df, set |-> TRUE]
    /\ UNCHANGED <<fetchVars, fileVars>>

(***************************************************************************)
(* fetch_comments_from_posts                                               *)
(***************************************************************************)
MaxFetchPosts == 2
MaxAvail == 3
MaxLimit == 2

FetchPostIds == { PostId(j) : j \in 1..MaxFetchPosts }
\* max_comments_per_post: None, or a number from 0 to MaxLimit.
NoLimit == [is_none |-> TRUE, n |-> 0]
Limit(n) == [is_none |-> FALSE, n |-> n]
Limits == {NoLimit} \cup { Limit(n) : n \in 0..MaxLimit }

\* The k-th comment of submission.comments.list() for post p: the first is a
\* top-level comment (parent fullname t3_<post>), each later one replies to
\* the one before it (parent fullname t1_<comment>).
CommentId(p, k) == 100 * p + k
SiteComment(p, k) ==
    [id |-> CommentId(p, k),
     parent_id |-> IF k = 1 THEN [prefix |-> "t3_", id |-> p]
                   ELSE [prefix |-> "t1_", id |-> CommentId(p, k - 1)]]

\* 'post' if comment.parent_id.startswith('t3_') else 'comment'
ParentTypeOf(fullname) == IF fullname.prefix = "t3_" THEN "post" ELSE "comment"
\* comment.parent_id.replace('t3_', '').replace('t1_', '')
StripPrefix(fullname) == fullname.id

\* _get_comment_data(comment, submission.id, parent_id, parent_type)
CommentData(comment, post_id) ==
    [comment_id |-> comment.id,
     post_id |-> post_id,
     parent_id |-> StripPrefix(comment.parent_id),
     parent_type |-> ParentTypeOf(comment.parent_id)]

\* max_comments_per_post and comment_count >= max_comments_per_post
\* (None and 0 are both falsy)
LimitReached(max, count) == ~max.is_none /\ max.n # 0 /\ count >= max.n

\* pd.DataFrame(comments_data)
DataFrameOf(rows) == [cols |-> rows # <<>>, index |-> RangeIndex, rows |-> rows]

FetchIdle ==
    /\ f_posts = EmptyFrame
    /\ f_site = [p \in FetchPostIds |-> 0]
    /\ f_max = NoLimit
    /\ f_pc = "idle"
    /\ f_idx = 0
    /\ f_pos = 0
    /\ comment_count = 0
    /\ comments_data = <<>>
    /\ f_result = NoResult

InitFetch ==
    /\ \E n \in 0..MaxFetchPosts :
         f_posts = IF n = 0 THEN EmptyWithColumns
                   ELSE [cols |-> TRUE, index |-> RangeIndex,
                         rows |-> [j \in 1..n |-> [post_id |-> PostId(j)]]]
    /\ f_site \in [FetchPostIds -> 0..MaxAvail]
    /\ f_max \in Limits
    /\ f_pc = "post"
    /\ f_idx = 0
    /\ f_pos = 0
    /\ comment_count = 0
    /\ comments_data = <<>>
    /\ f_result = NoResult

CurrentPost == f_posts.rows[f_idx].post_id

\* for idx, post_id in enumerate(posts_df['post_id'], 1): the next post;
\* submission = reddit.submission(id=post_id); comment_count = 0
FetchNextPost ==
    /\ f_pc = "post"
    /\ f_idx < Len(f_posts.rows)
    /\ f_idx' = f_idx + 1
    /\ f_pos' = 0
    /\ comment_count' = 0
    /\ f_pc' = "comment"
    /\ UNCHANGED <<f_posts, f_site, f_max, comments_data, f_result>>
    /\ UNCHANGED <<netVars, fileVars>>

\* The limit check of the inner loop breaks out of it.
FetchBreak ==
    /\ f_pc = "comment"
    /\ f_pos < f_site[CurrentPost]
    /\ LimitReached(f_max, comment_count)
    /\ f_pc' = "post"
    /\ UNCHANGED <<f_posts, f_site, f_max, f_idx, f_pos, comment_count, comments_data, f_result>>
    /\ UNCHANGED <<netVars, fileVars>>

\* One iteration of the inner loop that appends the comment.
FetchAppend ==
    /\ f_pc = "comment"
    /\ f_pos < f_site[CurrentPost]
    /\ ~LimitReached(f_max, comment_count)
    /\ comments_data' = Append(comments_data,
                               CommentData(SiteComment(CurrentPost, f_pos + 1), CurrentPost))
    /\ comment_count' = comment_count + 1
    /\ f_pos' = f_pos + 1
    /\ UNCHANGED <<f_posts, f_site, f_max, f_pc, f_idx, f_result>>
    /\ UNCHANGED <<netVars, fileVars>>

\* submission.comments.list() is exhausted.
FetchEndOfList ==
    /\ f_pc = "comment"
    /\ f_pos = f_site[CurrentPost]
    /\ f_pc' = "post"
    /\ UNCHANGED <<f_posts, f_site, f_max, f_idx, f_pos, comment_count, comments_data, f_result>>
    /\ UNCHANGED <<netVars, fileVars>>

\* return pd.DataFrame(comments_data)
FetchReturn ==
    /\ f_pc = "post"
    /\ f_idx = Len(f_posts.rows)
    /\ f_pc' = "done"
    /\ f_result' = DataFrameOf(comments_data)
    /\ UNCHANGED <<f_posts, f_site, f_max, f_idx, f_pos, comment_count, comments_data>>
    /\ UNCHANGED <<netVars, fileVars>>

(***************************************************************************)
(* file_exists, save_to_csv, read_from_csv, save_to_json, read_from_json   *)
(***************************************************************************)
MaxRows == 2

Folder == "data"
Filenames == {"posts.csv", "x.json"}
\* A file is the text written to it: format says which writer wrote it, lines
\* are the data lines of a csv file (one record of fields per row, under the
\* header author_id,created_datetime) or the text lines of a json file.
Absent == [present |-> FALSE, format |-> "", lines |-> <<>>]
Never == [cols |-> FALSE, rows |-> <<>>, saved |-> FALSE, json |-> FALSE]

\* os.path.join(folder, filename)
PathJoin(folder, filename) == <<folder, filename>>

\* The values of a frame's cells: a string, None, NaN, or a datetime.
StrCell(x) == [kind |-> "str", v |-> x]
NoneCell == [kind |-> "None", v |-> ""]
NaNCell == [kind |-> "NaN", v |-> ""]
DateTimeCell(x) == [kind |-> "datetime", v |-> x]

CsvRowValues == [author_id : {StrCell("u1"), NoneCell},
                 created_datetime : {DateTimeCell("2024-01-01 00:00:00")}]

\* df.to_csv: the text of a cell; a null is written as an empty field.
ToField(cell) == IF cell.kind \in {"None", "NaN"} THEN "" ELSE cell.v

to_csv(df) ==
    [present |-> TRUE,
     format |-> "csv",
     lines |-> [k \in DOMAIN df.rows |->
                  [author_id |-> ToField(df.rows[k].author_id),
                   created_datetime |-> ToField(df.rows[k].created_datetime)]]]

\* pd.read_csv: an empty field is read as NaN, any other field as a string.
FromField(x) == IF x = "" THEN NaNCell ELSE StrCell(x)

\* pd.to_datetime on a column named in datetime_columns
ToDatetime(cell) == IF cell.kind = "str" THEN DateTimeCell(cell.v) ELSE cell

\* The data given to save_to_json: a list of at most one record with the one
\* key author_id, its value a string or None.
JsonValues == { <<>> } \cup { << [author_id |-> a] >> : a \in {"u1", None} }

\* json.dump(data, f, ensure_ascii=False, indent=2): the lines of the text.
JsonScalar(v) == IF v = None THEN "null" ELSE "\"" \o v \o "\""
json_dump(data) ==
    IF data = <<>> THEN << "[]" >>
    ELSE << "[", "  {", "    \"author_id\": " \o JsonScalar(data[1].author_id), "  }", "]" >>

json_file(data) == [present |-> TRUE, format |-> "json", lines |-> json_dump(data)]

\* json.load(f): the data whose text the file holds; a file that holds no
\* json text (a csv file) raises JSONDecodeError.
IsJsonText(lines) == \E data \in JsonValues : json_dump(data) = lines
json_load(lines) == CHOOSE data \in JsonValues : json_dump(data) = lines

\* pd.read_csv.  On a csv file: an empty field is read as NaN, any other as a
\* string, and created_datetime is then converted (lines 58-60).  On the text
\* of a json file: the first line is the header, so the frame has the single
\* column "[" and one row per later line, each line read as one string field;
\* it has no created_datetime column to convert.
read_csv(file) ==
    IF file.format = "csv"
    THEN [cols |-> TRUE,
          index |-> RangeIndex,
          rows |-> [k \in DOMAIN file.lines |->
                 [author_id |-> FromField(file.lines[k].author_id),
                  created_datetime |-> ToDatetime(FromField(file.lines[k].created_datetime))]]]
    ELSE [cols |-> TRUE,
          index |-> RangeIndex,
          rows |-> [k \in 1..(Len(file.lines) - 1) |->
                      (file.lines[1] :> StrCell(file.lines[k + 1]))]]

\* What a call returned or raised.
ReturnedPath(path) == [kind |-> "path", path |-> path, frame |-> EmptyFrame, data |-> <<>>]
ReturnedNone == [kind |-> "None", path |-> <<>>, frame |-> EmptyFrame, data |-> <<>>]
ReturnedFrame(df) == [kind |-> "frame", path |-> <<>>, frame |-> df, data |-> <<>>]
ReturnedData(data) == [kind |-> "data", path |-> <<>>, frame |-> EmptyFrame, data |-> data]
RaisedFileNotFound(path) ==
    [kind |-> "FileNotFoundError", path |-> path, frame |-> EmptyFrame, data |-> <<>>]
RaisedJSONDecodeError ==
    [kind |-> "JSONDecodeError", path |-> <<>>, frame |-> EmptyFrame, data |-> <<>>]

\* os.path.exists(os.path.join(folder, filename))
file_exists(filename, folder) == folder \in dirs /\ fs[filename].present

FileIdle ==
    /\ dirs = {}
    /\ fs = [f \in Filenames |-> Absent]
    /\ last_saved = [f \in Filenames |-> Never]
    /\ io = [op |-> "none", filename |-> "", value |-> ReturnedNone]

InitFile == FileIdle

\* save_to_csv(df, filename)
SaveToCsv(df, filename) ==
    /\ dirs' = dirs \cup {Folder}
    /\ last_saved' = [last_saved EXCEPT ![filename] =
                        [cols |-> df.cols, rows |-> df.rows, saved |-> TRUE,
                         json |-> last_saved[filename].json]]
    /\ IF Len(df.rows) > 0
       THEN /\ fs' = [fs EXCEPT ![filename] = to_csv(df)]
            /\ io' = [op |-> "save", filename |-> filename,
                      value |-> ReturnedPath(PathJoin(Folder, filename))]
       ELSE /\ fs' = fs
            /\ io' = [op |-> "save", filename |-> filename, value |-> ReturnedNone]
    /\ UNCHANGED <<netVars, fetchVars>>

\* read_from_csv(filename)
ReadFromCsv(filename) ==
    /\ io' = [op |-> "read", filename |-> filename,
              value |-> IF file_exists(filename, Folder)
                        THEN ReturnedFrame(read_csv(fs[filename]))
                        ELSE RaisedFileNotFound(PathJoin(Folder, filename))]
    /\ UNCHANGED <<dirs, fs, last_saved>>
    /\ UNCHANGED <<netVars, fetchVars>>

\* save_to_json(data, filename)
SaveToJson(data, filename) ==
    /\ dirs' = dirs \cup {Folder}
    /\ IF Len(data) > 0
       THEN /\ fs' = [fs EXCEPT ![filename] = json_file(data)]
            /\ last_saved' = [last_saved EXCEPT ![filename].json = TRUE]
            /\ io' = [op |-> "save_json", filename |-> filename,
                      value |-> ReturnedPath(PathJoin(Folder, filename))]
       ELSE /\ fs' = fs
            /\ last_saved' = last_saved
            /\ io' = [op |-> "save_json", filename |-> filename, value |-> ReturnedNone]
    /\ UNCHANGED <<netVars, fetchVars>>

\* read_from_json(filename)
ReadFromJson(filename) ==
    /\ io' = [op |-> "read_json", filename |-> filename,
              value |-> IF ~file_exists(filename, Folder)
                        THEN RaisedFileNotFound(PathJoin(Folder, filename))
                        ELSE IF fs[filename].format = "json" /\ IsJsonText(fs[filename].lines)
                        THEN ReturnedData(json_load(fs[filename].lines))
                        ELSE RaisedJSONDecodeError]
    /\ UNCHANGED <<dirs, fs, last_saved>>
    /\ UNCHANGED <<netVars, fetchVars>>

\* The caller saves a frame it built: one it got from a fetch that found
\* nothing, or one with up to MaxRows rows.
SaveNonEmpty ==
    \E filename \in Filenames, n \in 1..MaxRows :
      \E r \in [1..n -> CsvRowValues] :
        SaveToCsv([cols |-> TRUE, index |-> RangeIndex, rows |-> r], filename)

SaveEmpty ==
    \E filename \in Filenames, df \in {EmptyFrame, EmptyWithColumns} :
        SaveToCsv(df, filename)

Read == \E filename \in Filenames : ReadFromCsv(filename)

SaveJson == \E filename \in Filenames, data \in JsonValues : SaveToJson(data, filename)

ReadJson == \E filename \in Filenames : ReadFromJson(filename)

(***************************************************************************)
(* Specifications                                                          *)
(***************************************************************************)
NetIdle ==
    /\ comments_df = EmptyFrame
    /\ posts_df = EmptyFrame
    /\ given = NotGiven
    /\ interactions = <<>>
    /\ edge_list = NoResult
    /\ prev_edge_list = NoResult

\* build_interaction_network on the frames the upstream layer supplies.
Init == InitNet /\ FetchIdle /\ FileIdle
Next == AddPost \/ AddComment \/ Build
Spec == Init /\ [][Next]_vars

\* fetch_comments_from_posts, one run per behaviour.
FetchInit == InitFetch /\ NetIdle /\ FileIdle
FetchNext == FetchNextPost \/ FetchBreak \/ FetchAppend \/ FetchEndOfList \/ FetchReturn
SpecFetch == FetchInit /\ [][FetchNext]_vars

\* Any sequence of save_to_csv, read_from_csv, save_to_json and read_from_json
\* calls on the folder.
FileInit == InitFile /\ NetIdle /\ FetchIdle
FileNext == SaveNonEmpty \/ SaveEmpty \/ Read \/ SaveJson \/ ReadJson
SpecFile == FileInit /\ [][FileNext]_vars

(***************************************************************************)
(* Properties of build_interaction_network (checked under Spec)            *)
(***************************************************************************)
Called == edge_list.status # "none"
CalledTwice == prev_edge_list.status # "none"

\* The rows handed to the first call.
GivenComments == given.comments.rows
GivenPosts == given.posts.rows

\* The author the data model assigns to a comment's reply target, read off the
\* given rows: the author of the post (parent_type post) or of the comment
\* (any other parent_type) whose id is parent_id; None when there is none.
PostAuthorOf(id) ==
    IF \E j \in DOMAIN GivenPosts : GivenPosts[j].post_id = id
    THEN GivenPosts[CHOOSE j \in DOMAIN GivenPosts : GivenPosts[j].post_id = id].author_id
    ELSE None
CommentAuthorOf(id) ==
    IF \E k \in DOMAIN GivenComments : GivenComments[k].comment_id = id
    THEN GivenComments[CHOOSE k \in DOMAIN GivenComments :
                         GivenComments[k].comment_id = id].author_id
    ELSE None
TargetAuthor(c) ==
    IF c.parent_type = "post" THEN PostAuthorOf(c.parent_id) ELSE CommentAuthorOf(c.parent_id)

\* The comments that are to yield a raw interaction.
Qualifying ==
    { k \in DOMAIN GivenComments :
        /\ GivenComments[k].author_id # None
        /\ TargetAuthor(GivenComments[k]) # None
        /\ TargetAuthor(GivenComments[k]) # GivenComments[k].author_id }

\* The raw interactions produced from the comment with this id.
InteractionsFrom(id) == { i \in DOMAIN interactions : interactions[i].comment_id = id }

EdgeTriple(e) == <<e.from_user_id, e.to_user_id, e.interaction_type>>
Contributors(e) == { i \in DOMAIN interactions : Triple(interactions[i]) = EdgeTriple(e) }

RECURSIVE SumWeights(_)
SumWeights(E) ==
    IF E = {} THEN 0
    ELSE LET e == CHOOSE x \in E : TRUE IN e.weight + SumWeights(E \ {e})

\* C1: no returned edge (and no raw interaction) has from_user_id equal to
\* to_user_id, whatever the comments and posts are.
C1_NoSelfLoops ==
    /\ \A e \in edge_list.rows : e.from_user_id # e.to_user_id
    /\ \A i \in DOMAIN interactions :
         interactions[i].from_user_id # interactions[i].to_user_id

\* C1 witness: a call on comments that hold a comment on the author's own
\* post, a reply to the author's own other comment, and a comment whose
\* parent is itself.
C1_Witness ==
    /\ Called
    /\ \E k \in DOMAIN GivenComments :
         LET c == GivenComments[k] IN
         /\ c.author_id # None /\ c.parent_type = "post"
         /\ PostAuthorOf(c.parent_id) = c.author_id
    /\ \E k \in DOMAIN GivenComments :
         LET c == GivenComments[k] IN
         /\ c.author_id # None /\ c.parent_type = "comment"
         /\ c.parent_id # c.comment_id
         /\ CommentAuthorOf(c.parent_id) = c.author_id
    /\ \E k \in DOMAIN GivenComments :
         LET c == GivenComments[k] IN
         /\ c.author_id # None /\ c.parent_type = "comment"
         /\ c.parent_id = c.comment_id

\* C2: a comment whose author is unknown yields no raw interaction, adds to
\* the weight of no edge, and no returned edge has an unknown from_user_id.
C2_UnknownAuthorSkipped ==
    Called =>
      /\ \A k \in DOMAIN GivenComments :
           GivenComments[k].author_id = None =>
             InteractionsFrom(GivenComments[k].comment_id) = {}
      /\ \A e \in edge_list.rows :
           /\ e.from_user_id # None
           /\ e.weight = Cardinality({ i \in Contributors(e) :
                \E k \in DOMAIN GivenComments :
                  /\ GivenComments[k].comment_id = interactions[i].comment_id
                  /\ GivenComments[k].author_id # None })

\* C2 witness: a call on comments holding one of unknown author whose parent
\* resolves to a known user, next to a comment that does yield an edge.
C2_Witness ==
    /\ Called
    /\ edge_list.rows # {}
    /\ \E k \in DOMAIN GivenComments :
         /\ GivenComments[k].author_id = None
         /\ TargetAuthor(GivenComments[k]) # None

\* C3: a comment whose reply target cannot be resolved is dropped without an
\* error: the call returns a frame, the comment yields no raw interaction,
\* and no returned edge has an unknown to_user_id.
C3_UnresolvedTargetDropped ==
    Called =>
      /\ \A k \in DOMAIN GivenComments :
           TargetAuthor(GivenComments[k]) = None =>
             /\ edge_list.status = "ok"
             /\ InteractionsFrom(GivenComments[k].comment_id) = {}
      /\ \A e \in edge_list.rows : e.to_user_id # None

\* C3 witness: a call on comments holding one of known author whose parent is
\* absent from the selected lookup and one whose parent is there with an
\* unknown author, next to a comment that does yield an edge.
C3_Witness ==
    /\ Called
    /\ edge_list.rows # {}
    /\ \E k \in DOMAIN GivenComments :
         LET c == GivenComments[k] IN
         /\ c.author_id # None
         /\ IF c.parent_type = "post"
            THEN \A j \in DOMAIN GivenPosts : GivenPosts[j].post_id # c.parent_id
            ELSE \A m \in DOMAIN GivenComments : GivenComments[m].comment_id # c.parent_id
    /\ \E k \in DOMAIN GivenComments :
         LET c == GivenComments[k] IN
         /\ c.author_id # None
         /\ TargetAuthor(c) = None
         /\ IF c.parent_type = "post"
            THEN \E j \in DOMAIN GivenPosts : GivenPosts[j].post_id = c.parent_id
            ELSE \E m \in DOMAIN GivenComments : GivenComments[m].comment_id = c.parent_id

\* The two comments of the aggregation scenario: from u2 to u1, the same
\* interaction type, at timestamps 100 and 150, and nothing else.
AggregationScenario ==
    /\ Len(interactions) = 2
    /\ \A i \in 1..2 : /\ interactions[i].from_user_id = "u2"
                       /\ interactions[i].to_user_id = "u1"
    /\ interactions[1].interaction_type = interactions[2].interaction_type
    /\ { interactions[1].timestamp, interactions[2].timestamp } = {100, 150}

\* C4: every edge's weight is the number of raw interactions with its triple
\* (so at least 1) and its first_interaction is their least timestamp; two
\* comments from u2 to u1 at 100 and 150 give one edge of weight 2, first 100.
C4_WeightAndFirst ==
    /\ \A e \in edge_list.rows :
         /\ e.weight = Cardinality(Contributors(e))
         /\ e.weight >= 1
         /\ \E i \in Contributors(e) : interactions[i].timestamp = e.first_interaction
         /\ \A i \in Contributors(e) : e.first_interaction <= interactions[i].timestamp
    /\ (Called /\ AggregationScenario) =>
         edge_list.rows = { [from_user_id |-> "u2", to_user_id |-> "u1",
                             interaction_type |-> interactions[1].interaction_type,
                             weight |-> 2, first_interaction |-> 100] }

\* C4 witness: the aggregation scenario after a call.
C4_Witness == Called /\ AggregationScenario /\ edge_list.status = "ok"

\* C5 (as claimed): whenever the comments are empty, the posts are empty, or no
\* comment yields a raw interaction, the call returns an empty frame with the
\* five edge columns and raises nothing.
C5_EmptyInputEmptyEdges ==
    (Called /\ (GivenComments = <<>> \/ GivenPosts = <<>> \/ interactions = <<>>)) =>
      edge_list = [status |-> "ok", columns |-> EdgeColumns, rows |-> {}]

\* C6: at most one edge per (from, to, interaction_type), and every triple of
\* a raw interaction keeps an edge of its own: opposite directions and
\* different interaction types are never merged.
C6_OneEdgePerTriple ==
    /\ \A e1, e2 \in edge_list.rows : EdgeTriple(e1) = EdgeTriple(e2) => e1 = e2
    /\ (edge_list.status = "ok") =>
         { EdgeTriple(e) : e \in edge_list.rows }
           = { Triple(interactions[i]) : i \in DOMAIN interactions }

\* C6 witness: a returned edge set holding u->v and v->u, and two edges of
\* one pair with different interaction types.
C6_Witness ==
    /\ Called
    /\ \E e1, e2 \in edge_list.rows :
         e1.from_user_id = e2.to_user_id /\ e1.to_user_id = e2.from_user_id
    /\ \E e1, e2 \in edge_list.rows :
         /\ e1.from_user_id = e2.from_user_id /\ e1.to_user_id = e2.to_user_id
         /\ e1.interaction_type # e2.interaction_type

\* C7: a second call made with the caller's frames after the first call
\* returns what the first returned (the same edge rows, or the same error),
\* and a call leaves the frames it was given as they were.
C7_Idempotent ==
    /\ CalledTwice => edge_list = prev_edge_list
    /\ Called => (comments_df = given.comments /\ posts_df = given.posts)

\* C7 witness: two calls made on comments holding one of unknown author, the
\* second returning at least one edge.
C7_Witness ==
    /\ CalledTwice
    /\ edge_list.rows # {}
    /\ \E k \in DOMAIN GivenComments : GivenComments[k].author_id = None

\* C8: exactly one raw interaction per qualifying comment and none for any
\* other; its target is the parent's author in the lookup selected by
\* parent_type, its type follows parent_type; the edge weights sum to the
\* number of qualifying comments.
C8_OnePerQualifyingComment ==
    Called =>
      /\ \A k \in DOMAIN GivenComments :
           Cardinality(InteractionsFrom(GivenComments[k].comment_id))
             = IF k \in Qualifying THEN 1 ELSE 0
      /\ \A i \in DOMAIN interactions :
           \E k \in Qualifying :
             LET c == GivenComments[k] IN
             /\ interactions[i].comment_id = c.comment_id
             /\ interactions[i].from_user_id = c.author_id
             /\ interactions[i].to_user_id = TargetAuthor(c)
             /\ interactions[i].timestamp = c.created_utc
             /\ interactions[i].interaction_type =
                  IF c.parent_type = "post" THEN "comment_on_post" ELSE "reply_to_comment"
      /\ SumWeights(edge_list.rows) = Cardinality(Qualifying)

\* C8 witness: a call on comments holding a qualifying one and one of known
\* author whose parent_id is found only in the lookup its parent_type does
\* not select, under an author that differs from its own.
C8_Witness ==
    /\ Called
    /\ Qualifying # {}
    /\ \E k \in DOMAIN GivenComments :
         LET c == GivenComments[k] IN
         /\ c.author_id # None
         /\ TargetAuthor(c) = None
         /\ LET other == IF c.parent_type = "post" THEN CommentAuthorOf(c.parent_id)
                         ELSE PostAuthorOf(c.parent_id)
            IN  other # None /\ other # c.author_id

(***************************************************************************)
(* Properties of fetch_comments_from_posts (checked under SpecFetch)       *)
(***************************************************************************)
CollectedOf(p) == { i \in DOMAIN f_result.rows : f_result.rows[i].post_id = p }
FetchedPosts == { f_posts.rows[j].post_id : j \in DOMAIN f_posts.rows }

\* C9 (as claimed): once fetch_comments_from_posts has returned, a limit that
\* is not None bounds the comments of every post in the result, and without a
\* limit every comment of every post is in the result.
C9_LimitPerPost ==
    f_pc = "done" =>
      \A p \in FetchedPosts :
        IF f_max.is_none
        THEN Cardinality(CollectedOf(p)) = f_site[p]
        ELSE Cardinality(CollectedOf(p)) <= f_max.n

(***************************************************************************)
(* Properties of save_to_csv and read_from_csv (checked under SpecFile)    *)
(***************************************************************************)
\* Two cells hold the same value; None and NaN both stand for a missing one.
SameCell(a, b) ==
    \/ a = b
    \/ a.kind \in {"None", "NaN"} /\ b.kind \in {"None", "NaN"}
SameRows(r1, r2) ==
    /\ Len(r1) = Len(r2)
    /\ \A k \in DOMAIN r1 :
         /\ SameCell(r1[k].author_id, r2[k].author_id)
         /\ SameCell(r1[k].created_datetime, r2[k].created_datetime)

\* C10 (as claimed): save_to_csv returns the path of the file for every frame;
\* on a filename written by save_to_csv only, read_from_csv returns the rows
\* of the frame last saved; and read_from_csv raises FileNotFoundError only
\* when no frame was ever saved under the filename.
C10_SaveThenRead ==
    /\ io.op = "save" => io.value = ReturnedPath(PathJoin(Folder, io.filename))
    /\ (io.op = "read" /\ last_saved[io.filename].saved) =>
         /\ io.value.kind # "FileNotFoundError"
         /\ ~last_saved[io.filename].json =>
              /\ io.value.kind = "frame"
              /\ SameRows(io.value.frame.rows, last_saved[io.filename].rows)

====
